---------------------------- MODULE Spec2Model ----------------------------
(***************************************************************************)
(* A model of nitransforms' AFNI adapter (nitransforms/io/afni.py) and of  *)
(* the composition test of nitransforms/tests/test_base.py.                *)
(*                                                                         *)
(* Numbers.  TLA+ has integers only.  Matrix entries, field samples and    *)
(* the numbers of a text are integer-valued doubles, which float64         *)
(* represents exactly, so the model's arithmetic is the code's.            *)
(* Quantities that involve a square root (voxel sizes) are carried as      *)
(* their squares, and angles are compared through their squared cosines.   *)
(*                                                                         *)
(* Five specifications share the variables; each leaves the variables of   *)
(* the other four at their initial values:                                 *)
(*   SpecRas      from_ras / to_ras of AFNILinearTransform(Array)          *)
(*   SpecText     from_string / to_string                                  *)
(*   SpecField    AFNIDisplacementsField.from_image                        *)
(*   SpecCompose  Affine composition (test_concatenation)                  *)
(*   SpecObliq    _is_oblique and _afni_warpdrive                          *)
(***************************************************************************)
EXTENDS Integers, Sequences, FiniteSets, TLC

VARIABLES
    \* --- from_ras / to_ras
    rasPc,      \* "build" | "stored" | "done"
    rasKind,    \* "array" (AFNILinearTransformArray) | "single" (AFNILinearTransform)
    rasIn,      \* the stack of RAS+ matrices handed to from_ras
    rasXforms,  \* structarr["parameters"] of every transform of the object
    rasOut      \* what to_ras returned: [err, val]

rasVars == <<rasPc, rasKind, rasIn, rasXforms, rasOut>>

VARIABLES
    \* --- from_string / to_string
    txtPc,       \* "build" | "parsed" | "written" | "reparsed"
    txtKind,     \* "array" | "single": whose from_string was called
    txtIn,       \* the text handed to from_string, a sequence of lines
    txtParsed,   \* what from_string returned or raised: [err, val]
    txtOut,      \* what to_string returned, a sequence of lines
    txtReparsed  \* from_string of txtOut: [err, val]

txtVars == <<txtPc, txtKind, txtIn, txtParsed, txtOut, txtReparsed>>

VARIABLES
    \* --- AFNIDisplacementsField.from_image
    img,         \* the image object handed in: [shape, data, inMemory]
    imgOrig,     \* img.data as it was when the image was built (history)
    fldCalls,    \* number of from_image calls made on img so far
    fldOut,      \* what the last call returned or raised: [err, shape, data]
    fldFirst     \* what the first call returned or raised

fldVars == <<img, imgOrig, fldCalls, fldOut, fldFirst>>

VARIABLES
    \* --- Affine composition
    cmpPc,       \* "init" | "composed" | "mapped"
    cmpA, cmpB,  \* the matrices of the two operands of "+"
    cmpPts,      \* the ordered list of points
    cmpInv,      \* the "inverse" flag of the call
    cmpAB,       \* the matrix of A + B
    cmpOut,      \* (A + B).map(X, inverse)
    cmpSeq       \* the operands applied one after the other

cmpVars == <<cmpPc, cmpA, cmpB, cmpPts, cmpInv, cmpAB, cmpOut, cmpSeq>>

VARIABLES
    \* --- _is_oblique / _afni_warpdrive
    oblPc,       \* "init" | "tested" | "warped"
    oblAffine,   \* the affine handed in
    oblShape,    \* the grid shape handed to _afni_warpdrive
    oblFlag,     \* what _is_oblique returned
    oblPlumb     \* the plumb 3x3 block _afni_warpdrive built: [sign, sq]

oblVars == <<oblPc, oblAffine, oblShape, oblFlag, oblPlumb>>

vars == <<rasVars, txtVars, fldVars, cmpVars, oblVars>>

(***************************************************************************)
(* Bounds of the model.                                                    *)
(***************************************************************************)
MaxN == 2          \* matrices in a stack handed to from_ras
MaxLines == 3      \* lines of a text handed to from_string
MaxRank == 6       \* axes of an image
MaxDim == 3        \* length of an axis of an image
MaxElems == 24     \* samples of an image
MaxCalls == 2      \* from_image calls on one image

(***************************************************************************)
(* Matrices: a matrix is a tuple of rows, a row a tuple of numbers.        *)
(***************************************************************************)
RECURSIVE DotFrom(_, _, _, _)
DotFrom(A, B, ij, k) ==
    IF k = 0 THEN 0
    ELSE A[ij[1]][k] * B[k][ij[2]] + DotFrom(A, B, ij, k - 1)

\* The operator "@" on 2-D arrays, written as the row-by-column sum.
MatMul(A, B) ==
    [i \in 1..Len(A) |-> [j \in 1..Len(B[1]) |-> DotFrom(A, B, <<i, j>>, Len(B))]]

\* np.swapaxes(m, 0, 1) and m.T of a 2-D array.
Transpose(A) ==
    [i \in 1..Len(A[1]) |-> [j \in 1..Len(A) |-> A[j][i]]]

Identity4 ==
    << <<1, 0, 0, 0>>, <<0, 1, 0, 0>>, <<0, 0, 1, 0>>, <<0, 0, 0, 1>> >>

\* LPS = np.diag([-1, -1, 1, 1])
LPS ==
    << <<-1, 0, 0, 0>>, <<0, -1, 0, 0>>, <<0, 0, 1, 0>>, <<0, 0, 0, 1>> >>

Ok(v) == [err |-> "none", val |-> v]
Raise(e) == [err |-> e, val |-> <<>>]

(***************************************************************************)
(* AFNILinearTransform.from_ras / to_ras and the array's from_ras/to_ras.  *)
(***************************************************************************)
\* A bug the round trip must detect: the trailing ".T" of from_ras left out.
FromRasNoT(ras) ==
    Transpose(MatMul(MatMul(LPS, ras), LPS))

\* parameters = np.swapaxes(LPS @ ras @ LPS, 0, 1)
\* tf.structarr["parameters"] = parameters.T
FromRas(ras) ==
    Transpose(Transpose(MatMul(MatMul(LPS, ras), LPS)))

\* LPS @ np.swapaxes(self.structarr["parameters"].T, 0, 1) @ LPS
ToRas(parameters) ==
    MatMul(MatMul(LPS, Transpose(Transpose(parameters))), LPS)

\* [cls._inner_type.from_ras(ras[i, ...]) for i in range(ras.shape[0])]
ArrayFromRasOp(ras) ==
    [i \in 1..Len(ras) |-> FromRas(ras[i])]

\* np.stack([xfm.to_ras() for xfm in self.xforms]); np.stack of an empty
\* list raises ValueError("need at least one array to stack").
ArrayToRasOp(xforms) ==
    IF Len(xforms) = 0
    THEN Raise("ValueError")
    ELSE Ok([i \in 1..Len(xforms) |-> ToRas(xforms[i])])

\* The 4x4 matrices the model hands to from_ras: bottom row [0,0,0,1], the
\* twelve free entries pairwise different so that a transposition or a
\* missing sign shows.
RasMatrix(s, c) ==
    [i \in 1..4 |->
        IF i = 4 THEN <<0, 0, 0, 1>>
        ELSE [j \in 1..4 |-> s * (4 * (i - 1) + j) + c]]

RasPalette ==
    {Identity4} \cup {RasMatrix(s, c) : s \in {1, -1, 2}, c \in {0, 1, -7}}

TxtIdle ==
    /\ txtPc = "build"
    /\ txtKind = "array"
    /\ txtIn = <<>>
    /\ txtParsed = Ok(<<>>)
    /\ txtOut = <<>>
    /\ txtReparsed = Ok(<<>>)

RasIdle ==
    /\ rasPc = "build"
    /\ rasKind = "array"
    /\ rasIn = <<>>
    /\ rasXforms = <<>>
    /\ rasOut = Ok(<<>>)

FldIdle ==
    /\ img = [shape |-> <<>>, data |-> <<>>, inMemory |-> FALSE]
    /\ imgOrig = <<>>
    /\ fldCalls = 0
    /\ fldOut = [err |-> "none", shape |-> <<>>, data |-> <<>>]
    /\ fldFirst = [err |-> "none", shape |-> <<>>, data |-> <<>>]

CmpIdle ==
    /\ cmpPc = "init"
    /\ cmpA = Identity4
    /\ cmpB = Identity4
    /\ cmpPts = <<>>
    /\ cmpInv = FALSE
    /\ cmpAB = Identity4
    /\ cmpOut = <<>>
    /\ cmpSeq = <<>>

OblIdle ==
    /\ oblPc = "init"
    /\ oblAffine = Identity4
    /\ oblShape = <<1, 1, 1>>
    /\ oblFlag = FALSE
    /\ oblPlumb = [sign |-> <<>>, sq |-> <<>>]

RasFrame == UNCHANGED <<txtVars, fldVars, cmpVars, oblVars>>
TxtFrame == UNCHANGED <<rasVars, fldVars, cmpVars, oblVars>>
FldFrame == UNCHANGED <<rasVars, txtVars, cmpVars, oblVars>>
CmpFrame == UNCHANGED <<rasVars, txtVars, fldVars, oblVars>>
OblFrame == UNCHANGED <<rasVars, txtVars, fldVars, cmpVars>>

RasInit == RasIdle /\ TxtIdle /\ FldIdle /\ CmpIdle /\ OblIdle

\* The caller stacks one more matrix before the call.
RasAppend ==
    /\ rasPc = "build"
    /\ Len(rasIn) < MaxN
    /\ \E M \in RasPalette : rasIn' = Append(rasIn, M)
    /\ UNCHANGED <<rasPc, rasKind, rasXforms, rasOut>>
    /\ RasFrame

ArrayFromRas ==
    /\ rasPc = "build"
    /\ rasPc' = "stored"
    /\ rasKind' = "array"
    /\ rasXforms' = ArrayFromRasOp(rasIn)
    /\ UNCHANGED <<rasIn, rasOut>>
    /\ RasFrame

ArrayToRas ==
    /\ rasPc = "stored"
    /\ rasKind = "array"
    /\ rasPc' = "done"
    /\ rasOut' = ArrayToRasOp(rasXforms)
    /\ UNCHANGED <<rasKind, rasIn, rasXforms>>
    /\ RasFrame

SingleFromRas ==
    /\ rasPc = "build"
    /\ Len(rasIn) = 1
    /\ rasPc' = "stored"
    /\ rasKind' = "single"
    /\ rasXforms' = <<FromRas(rasIn[1])>>
    /\ UNCHANGED <<rasIn, rasOut>>
    /\ RasFrame

SingleToRas ==
    /\ rasPc = "stored"
    /\ rasKind = "single"
    /\ rasPc' = "done"
    /\ rasOut' = Ok(ToRas(rasXforms[1]))
    /\ UNCHANGED <<rasKind, rasIn, rasXforms>>
    /\ RasFrame

RasNext ==
    \/ RasAppend
    \/ ArrayFromRas
    \/ ArrayToRas
    \/ SingleFromRas
    \/ SingleToRas

SpecRas == RasInit /\ [][RasNext]_vars

(***************************************************************************)
(* C1.  Matrix round trip.                                                 *)
(***************************************************************************)
\* C1 as claimed: for every 4x4 matrix M with bottom row [0,0,0,1],
\* from_ras(M).to_ras() equals M, and for every stack S of N such matrices
\* (N = 0 included) the array's from_ras(S).to_ras() is a stack of exactly
\* N matrices, the i-th equal to S[i].
C1_RoundTripAnyN ==
    rasPc = "done" =>
        /\ rasOut.err = "none"
        /\ rasKind = "single" => rasOut.val = rasIn[1]
        /\ rasKind = "array" =>
            /\ Len(rasOut.val) = Len(rasIn)
            /\ \A i \in 1..Len(rasIn) : rasOut.val[i] = rasIn[i]

\* C1 as amended: the round trip of a single matrix, and of every stack of
\* N >= 1 matrices, returns the input, count and order preserved.
C1_RoundTripNonEmpty ==
    (rasPc = "done" /\ (rasKind = "single" \/ Len(rasIn) >= 1)) =>
        /\ rasOut.err = "none"
        /\ rasKind = "single" => rasOut.val = rasIn[1]
        /\ rasKind = "array" =>
            /\ Len(rasOut.val) = Len(rasIn)
            /\ \A i \in 1..Len(rasIn) : rasOut.val[i] = rasIn[i]

\* A stack of two different matrices went through the array's round trip.
C1_Witness ==
    /\ rasPc = "done"
    /\ rasKind = "array"
    /\ Len(rasIn) = 2
    /\ rasIn[1] # rasIn[2]
    /\ rasIn[1] # Transpose(rasIn[1])
    /\ rasOut.err = "none"

(***************************************************************************)
(* Text.  A text is the sequence of its lines (str.splitlines), a line a   *)
(* sequence of tokens: a run of whitespace, the character '#', the words   *)
(* "3dvolreg matrices", some other non-numeric word, the word "nan", or a  *)
(* decimal literal  [-]int[.frac][e+exp].                                  *)
(***************************************************************************)
Tok(k) == [kind |-> k, neg |-> FALSE, int |-> <<>>, frac |-> <<>>, exp |-> 0]
WS == Tok("ws")
HASH == Tok("hash")
BANNER == Tok("banner")
WORD == Tok("word")
NANLIT == Tok("nan")
Lit(neg, int, frac, exp) ==
    [kind |-> "num", neg |-> neg, int |-> int, frac |-> frac, exp |-> exp]

\* A float64: a number or nan.
F(v) == [nan |-> FALSE, v |-> v]
NaN == [nan |-> TRUE, v |-> 0]

RECURSIVE Pow10(_)
Pow10(n) == IF n = 0 THEN 1 ELSE 10 * Pow10(n - 1)

RECURSIVE Digits(_)
\* The decimal digits of a >= 0, most significant first.
Digits(a) == IF a < 10 THEN <<a>> ELSE Append(Digits(a \div 10), a % 10)

RECURSIVE DigitsValue(_)
DigitsValue(ds) ==
    IF ds = <<>> THEN 0
    ELSE 10 * DigitsValue(SubSeq(ds, 1, Len(ds) - 1)) + ds[Len(ds)]

RECURSIVE StripZeros(_)
\* '%g' removes the trailing zeros of the fraction.
StripZeros(ds) ==
    IF ds # <<>> /\ ds[Len(ds)] = 0
    THEN StripZeros(SubSeq(ds, 1, Len(ds) - 1))
    ELSE ds

\* The precision of '%g' when none is written: 6 significant digits.
GPrecision == 6

\* The mantissa of a >= 10^P rounded to P significant digits, as printf
\* rounds (to nearest, ties to even): [q, x] with q the P digits and x the
\* decimal exponent.
RoundSig(a, P) ==
    LET nd == Len(Digits(a))
        scale == Pow10(nd - P)
        q == a \div scale
        r == a % scale
        up == (2 * r > scale) \/ (2 * r = scale /\ q % 2 = 1)
        q1 == IF up THEN q + 1 ELSE q
    IN  IF q1 = Pow10(P)
        THEN [q |-> Pow10(P - 1), x |-> nd]
        ELSE [q |-> q1, x |-> nd - 1]

\* "%g" % p.  With X the decimal exponent of p, '%g' writes fixed notation
\* when -4 <= X < 6 (for an integer-valued p: its digits, the zero fraction
\* removed) and d.ddddde+XX otherwise, rounded to 6 significant digits.
FormatG(f) ==
    IF f.nan THEN NANLIT
    ELSE LET a == IF f.v < 0 THEN -f.v ELSE f.v
         IN  IF Len(Digits(a)) - 1 < GPrecision
             THEN Lit(f.v < 0, Digits(a), <<>>, 0)
             ELSE LET m == RoundSig(a, GPrecision)
                      ds == Digits(m.q)
                  IN  Lit(f.v < 0, <<ds[1]>>, StripZeros(Tail(ds)), m.x)

\* float(token) as np.genfromtxt converts a cell with dtype="f8": the value
\* of a decimal literal, nan for "nan", and (loose=True, the default) nan
\* for a cell that is no number.
ParseFloat(t) ==
    IF t.kind = "num"
    THEN LET m == DigitsValue(t.int \o t.frac)
             v == m * Pow10(t.exp - Len(t.frac))
         IN  F(IF t.neg THEN -v ELSE v)
    ELSE NaN

RECURSIVE Strip(_)
\* str.strip()
Strip(line) ==
    IF line = <<>> THEN line
    ELSE IF Head(line) = WS THEN Strip(Tail(line))
    ELSE IF line[Len(line)] = WS THEN Strip(SubSeq(line, 1, Len(line) - 1))
    ELSE line

\* line.startswith("#")
StartsWithHash(line) == line # <<>> /\ Head(line) = HASH

\* "3dvolreg matrices" in line
HasBanner(line) == \E i \in 1..Len(line) : line[i] = BANNER

RECURSIVE CutComment(_)
\* np.genfromtxt drops what follows the comment character '#'.
CutComment(line) ==
    IF line = <<>> \/ Head(line) = HASH THEN <<>>
    ELSE <<Head(line)>> \o CutComment(Tail(line))

RECURSIVE Cells(_)
\* The whitespace-separated cells of a line; "3dvolreg matrices" is two.
Cells(line) ==
    IF line = <<>> THEN <<>>
    ELSE IF Head(line) = WS THEN Cells(Tail(line))
    ELSE IF Head(line) = BANNER THEN <<WORD, WORD>> \o Cells(Tail(line))
    ELSE <<Head(line)>> \o Cells(Tail(line))

\* np.genfromtxt([line.encode()], dtype="f8"): the flat array of the cells.
GenFromTxt(line) ==
    LET cs == Cells(CutComment(line))
    IN  [i \in 1..Len(cs) |-> ParseFloat(cs[i])]

\* np.vstack((a.reshape((3, 4)), (0.0, 0.0, 0.0, 1.0))); reshape raises
\* ValueError unless a holds 12 numbers.
Reshape34(a) ==
    IF Len(a) # 12
    THEN Raise("ValueError")
    ELSE Ok([i \in 1..4 |->
                IF i = 4 THEN <<F(0), F(0), F(0), F(1)>>
                ELSE [j \in 1..4 |-> a[4 * (i - 1) + j]]])

\* The filter of AFNILinearTransform.from_string.
InnerKeeps(line) ==
    Strip(line) # <<>> /\ ~(StartsWithHash(line) \/ HasBanner(line))

\* AFNILinearTransform.from_string
InnerFromString(text) ==
    LET lines == SelectSeq(text, InnerKeeps)
    IN  IF lines = <<>>
        THEN Raise("TransformFileError")
        ELSE Reshape34(GenFromTxt(lines[1]))

\* The filter of AFNILinearTransformArray.from_string (on the raw line).
ArrayKeeps(line) ==
    Strip(line) # <<>> /\ ~StartsWithHash(line)

RECURSIVE ParseEach(_)
\* [cls._inner_type.from_string(line) for line in lines]: the first
\* exception ends the comprehension.
ParseEach(lines) ==
    IF lines = <<>> THEN Ok(<<>>)
    ELSE LET one == InnerFromString(<<Head(lines)>>)
         IN  IF one.err # "none" THEN Raise(one.err)
             ELSE LET rest == ParseEach(Tail(lines))
                  IN  IF rest.err # "none" THEN rest
                      ELSE Ok(<<one.val>> \o rest.val)

\* AFNILinearTransformArray.from_string
ArrayFromStringOp(text) ==
    LET kept == SelectSeq(text, ArrayKeeps)
        lines == [i \in 1..Len(kept) |-> Strip(kept[i])]
    IN  IF lines = <<>>
        THEN Raise("TransformFileError")
        ELSE ParseEach(lines)

RECURSIVE JoinTab(_)
\* "\t".join(cells)
JoinTab(cells) ==
    IF cells = <<>> THEN <<>>
    ELSE IF Len(cells) = 1 THEN cells
    ELSE <<Head(cells), WS>> \o JoinTab(Tail(cells))

\* AFNILinearTransform.__str__
Str(param) ==
    JoinTab([k \in 1..12 |-> FormatG(param[((k - 1) \div 4) + 1][((k - 1) % 4) + 1])])

\* "# 3dvolreg matrices (DICOM-to-DICOM, row-by-row):"
BannerLine == <<HASH, WS, BANNER, WS, WORD>>

\* AFNILinearTransform.to_string, as the lines of the string it returns.
XfmToString(param, banner) ==
    IF banner THEN <<BannerLine, Str(param)>> ELSE <<Str(param)>>

RECURSIVE ArrayToStringFrom(_, _)
ArrayToStringFrom(xforms, i) ==
    IF i > Len(xforms) THEN <<>>
    ELSE LET lines == SelectSeq(XfmToString(xforms[i], i = 1),
                                LAMBDA l : Strip(l) # <<>>)
         IN  [k \in 1..Len(lines) |-> Strip(lines[k])]
             \o ArrayToStringFrom(xforms, i + 1)

\* AFNILinearTransformArray.to_string, as the lines of "\n".join(strings).
ArrayToStringOp(xforms) == ArrayToStringFrom(xforms, 1)

(***************************************************************************)
(* The lines the model writes into a text.                                 *)
(***************************************************************************)
IntLit(v) == Lit(v < 0, Digits(IF v < 0 THEN -v ELSE v), <<>>, 0)
DataLine(vals) == JoinTab([k \in 1..Len(vals) |-> IntLit(vals[k])])

RowsIdentity == <<1, 0, 0, 0, 0, 1, 0, 0, 0, 0, 1, 0>>
RowsSix == <<-1, 20, 0, 250000, 0, -1, 3, -999999, 5, 0, 1, 100000>>
RowsSeven == <<1234567, 0, 0, 0, 0, 1, 0, 0, 0, 0, 1, -9999995>>

LinePalette ==
    { <<>>,                                   \* an empty line
      <<WS>>,                                 \* a line of blanks
      <<HASH, WS, WORD>>,                     \* "# comment"
      BannerLine,                             \* the banner to_string writes
      <<WS, HASH, WS, WORD>>,                 \* "  # comment"
      <<BANNER, WS, WORD>>,                   \* the banner without its '#'
      DataLine(RowsIdentity),
      <<WS>> \o DataLine(RowsSix) \o <<WS>>,  \* indented data
      DataLine(RowsSeven),                    \* 7 significant digits
      DataLine(RowsIdentity) \o <<WS, HASH, WS, WORD>>,  \* trailing comment
      DataLine(SubSeq(RowsSix, 1, 11)),       \* 11 numbers
      DataLine(RowsSix \o <<7>>),             \* 13 numbers
      DataLine(SubSeq(RowsSix, 1, 11)) \o <<WS, WORD>>   \* 11 numbers, a word
    }

TxtInit == TxtIdle /\ RasIdle /\ FldIdle /\ CmpIdle /\ OblIdle

\* The caller writes one more line into the text.
TxtAppend ==
    /\ txtPc = "build"
    /\ Len(txtIn) < MaxLines
    /\ \E l \in LinePalette : txtIn' = Append(txtIn, l)
    /\ UNCHANGED <<txtPc, txtKind, txtParsed, txtOut, txtReparsed>>
    /\ TxtFrame

ArrayFromString ==
    /\ txtPc = "build"
    /\ txtPc' = "parsed"
    /\ txtKind' = "array"
    /\ txtParsed' = ArrayFromStringOp(txtIn)
    /\ UNCHANGED <<txtIn, txtOut, txtReparsed>>
    /\ TxtFrame

SingleFromString ==
    /\ txtPc = "build"
    /\ txtPc' = "parsed"
    /\ txtKind' = "single"
    /\ txtParsed' = InnerFromString(txtIn)
    /\ UNCHANGED <<txtIn, txtOut, txtReparsed>>
    /\ TxtFrame

ArrayToString ==
    /\ txtPc = "parsed"
    /\ txtKind = "array"
    /\ txtParsed.err = "none"
    /\ txtPc' = "written"
    /\ txtOut' = ArrayToStringOp(txtParsed.val)
    /\ UNCHANGED <<txtKind, txtIn, txtParsed, txtReparsed>>
    /\ TxtFrame

ArrayFromStringAgain ==
    /\ txtPc = "written"
    /\ txtPc' = "reparsed"
    /\ txtReparsed' = ArrayFromStringOp(txtOut)
    /\ UNCHANGED <<txtKind, txtIn, txtParsed, txtOut>>
    /\ TxtFrame

TxtNext ==
    \/ TxtAppend
    \/ ArrayFromString
    \/ SingleFromString
    \/ ArrayToString
    \/ ArrayFromStringAgain

SpecText == TxtInit /\ [][TxtNext]_vars


(***************************************************************************)
(* C2.  Text round trip.                                                   *)
(***************************************************************************)
\* C2 as claimed: for every text the array's from_string accepts, parsing
\* it, writing the result with to_string and parsing that again yields the
\* same sequence of matrices as the first parse, value for value and in
\* the same order (a nan counted equal to a nan).
C2_TextRoundTrip ==
    txtPc = "reparsed" => txtReparsed = txtParsed

(***************************************************************************)
(* C3.  Blank, comment and banner lines of a text.                         *)
(***************************************************************************)
\* A comment line has '#' as its first non-blank character; a banner line
\* holds the words "3dvolreg matrices" (afni.py line 57).
C3_Skipped(line) ==
    Strip(line) = <<>> \/ StartsWithHash(Strip(line)) \/ HasBanner(line)

C3_DataLines(text) == SelectSeq(text, LAMBDA l : ~C3_Skipped(l))

\* C3 as claimed: the array's from_string skips every blank, comment and
\* banner line wherever it occurs, raises TransformFileError exactly when
\* no data line remains, and otherwise returns one transform per remaining
\* data line, in the order of the text.
C3_SkipsCommentsAnywhere ==
    (txtPc = "parsed" /\ txtKind = "array") =>
        LET data == C3_DataLines(txtIn)
        IN  /\ txtParsed.err = "TransformFileError" <=> data = <<>>
            /\ txtParsed.err = "none" =>
                /\ Len(txtParsed.val) = Len(data)
                /\ \A i \in 1..Len(data) :
                      txtParsed.val[i] = Reshape34(GenFromTxt(data[i])).val

(***************************************************************************)
(* C4.  Twelve numbers per retained line.                                  *)
(***************************************************************************)
\* The lines from_string retains: those that pass its own filter.
C4_Retained(kind, text) ==
    IF kind = "array" THEN SelectSeq(text, ArrayKeeps)
    ELSE SelectSeq(text, InnerKeeps)

\* The line consists of exactly 12 numbers (a trailing '#' comment apart).
C4_TwelveNumbers(line) ==
    LET cs == Cells(CutComment(line))
    IN  Len(cs) = 12 /\ \A i \in 1..12 : cs[i].kind = "num"

\* C4 as claimed: a text with a retained line that does not consist of
\* exactly 12 numbers is rejected with an error, and every transform that
\* is produced has the 12 numbers of its own line as rows 0..2 and
\* [0,0,0,1] as row 3.
C4_TwelveNumbersOrError ==
    txtPc = "parsed" =>
        LET kept == C4_Retained(txtKind, txtIn)
        IN  /\ (\E i \in 1..Len(kept) : ~C4_TwelveNumbers(kept[i]))
                => txtParsed.err # "none"
            /\ (txtParsed.err = "none" /\ txtKind = "array") =>
                \A i \in 1..Len(txtParsed.val) :
                    /\ txtParsed.val[i][4] = <<F(0), F(0), F(0), F(1)>>
                    /\ \A k \in 1..12 :
                          LET e == txtParsed.val[i][((k - 1) \div 4) + 1][((k - 1) % 4) + 1]
                          IN  ~e.nan /\ e = ParseFloat(Cells(CutComment(kept[i]))[k])

(***************************************************************************)
(* AFNIDisplacementsField.from_image.  An array is its shape and its       *)
(* samples in row-major (C) order; the samples are floating point.         *)
(***************************************************************************)
RECURSIVE Prod(_)
Prod(shape) == IF shape = <<>> THEN 1 ELSE Head(shape) * Prod(Tail(shape))

\* A bug: the singleton test made on the wrong axis (shape[-3]).
RejectsAxis3(shape) ==
    \/ Len(shape) # 5
    \/ shape[Len(shape) - 2] # 1
    \/ ~(shape[Len(shape)] \in {2, 3})

\* len(shape) != 5 or shape[-2] != 1 or not shape[-1] in (2, 3)
Rejects(shape) ==
    \/ Len(shape) # 5
    \/ shape[Len(shape) - 1] # 1
    \/ ~(shape[Len(shape)] \in {2, 3})

\* The shape np.squeeze leaves: every axis of length 1 is removed.
Squeeze(shape) == SelectSeq(shape, LAMBDA d : d # 1)

\* field[..., (0, 1)] *= -1.0 on the samples of an array whose last axis
\* has length C.
FlipXY(data, C) ==
    [k \in 1..Len(data) |-> IF (k - 1) % C \in {0, 1} THEN -data[k] ELSE data[k]]

\* from_image: [err, shape, data] is what the call raises or returns, and
\* imgData the samples of imgobj after the call.  np.asanyarray of an
\* in-memory array is that array and np.squeeze a view of it, so the
\* in-place product writes into imgobj's own samples; the array of a
\* file-backed image (an array proxy) is read afresh by every call.
FromImageOp(image) ==
    IF Rejects(image.shape)
    THEN [err |-> "TransformFileError", shape |-> <<>>, data |-> <<>>,
          imgData |-> image.data]
    ELSE LET shape == Squeeze(image.shape)
             field == FlipXY(image.data, shape[Len(shape)])
         IN  [err |-> "none", shape |-> shape, data |-> field,
              imgData |-> IF image.inMemory THEN field ELSE image.data]

Shapes ==
    {s \in UNION {[1..n -> 1..MaxDim] : n \in 0..MaxRank} : Prod(s) <= MaxElems}

FldInit ==
    /\ \E s \in Shapes, m \in BOOLEAN, sgn \in {1, -1} :
          /\ img = [shape |-> s, data |-> [k \in 1..Prod(s) |-> sgn * k],
                    inMemory |-> m]
          /\ imgOrig = [k \in 1..Prod(s) |-> sgn * k]
    /\ fldCalls = 0
    /\ fldOut = [err |-> "none", shape |-> <<>>, data |-> <<>>]
    /\ fldFirst = [err |-> "none", shape |-> <<>>, data |-> <<>>]
    /\ RasIdle /\ TxtIdle /\ CmpIdle /\ OblIdle

FromImage ==
    /\ fldCalls < MaxCalls
    /\ LET r == FromImageOp(img)
           ret == [err |-> r.err, shape |-> r.shape, data |-> r.data]
       IN  /\ fldOut' = ret
           /\ fldFirst' = IF fldCalls = 0 THEN ret ELSE fldFirst
           /\ img' = [img EXCEPT !.data = r.imgData]
    /\ fldCalls' = fldCalls + 1
    /\ UNCHANGED imgOrig
    /\ FldFrame

FldNext == FromImage

SpecField == FldInit /\ [][FldNext]_vars

RECURSIVE FlatIndex(_, _)
FlatIndex(shape, idx) ==
    IF shape = <<>> THEN 0
    ELSE LET n == Len(shape)
         IN  FlatIndex(SubSeq(shape, 1, n - 1), SubSeq(idx, 1, n - 1)) * shape[n]
             + idx[n]

\* C6 as claimed: for every accepted image of shape (X, Y, Z, 1, C), any
\* X, Y, Z >= 1, the first call returns data of shape (X, Y, Z, C) whose
\* value at (x, y, z) is the input vector at (x, y, z, 0) with components
\* 0 and 1 negated and a third component unchanged.
C6_ShapeAndSigns ==
    (fldCalls >= 1 /\ fldFirst.err = "none") =>
        LET s == img.shape
            out == <<s[1], s[2], s[3], s[5]>>
        IN  /\ fldFirst.shape = out
            /\ \A x \in 0..(s[1] - 1), y \in 0..(s[2] - 1), z \in 0..(s[3] - 1),
                  c \in 0..(s[5] - 1) :
                  LET got == fldFirst.data[FlatIndex(out, <<x, y, z, c>>) + 1]
                      inp == imgOrig[FlatIndex(s, <<x, y, z, 0, c>>) + 1]
                  IN  got = IF c < 2 THEN -inp ELSE inp

(***************************************************************************)
(* C10.  from_image and its input.                                         *)
(***************************************************************************)
\* C10 as claimed: after any call, accepted or rejected, the samples of
\* the image handed in are what they were before, and every call on the
\* same image returns what the first call returned.
C10_InputUntouched ==
    fldCalls >= 1 =>
        /\ img.data = imgOrig
        /\ fldOut = fldFirst

(***************************************************************************)
(* Affine and its composition.  nitransforms/linear.py is not among the    *)
(* sources; Affine is modelled from the specification (sections 4.2 and    *)
(* 4.3): Affine(matrix) defaults to the identity, map applies the matrix   *)
(* (its inverse with inverse=True) to every point in homogeneous           *)
(* coordinates, and A + B multiplies the matrices in map order.            *)
(***************************************************************************)
Det3(R) ==
      R[1][1] * (R[2][2] * R[3][3] - R[2][3] * R[3][2])
    - R[1][2] * (R[2][1] * R[3][3] - R[2][3] * R[3][1])
    + R[1][3] * (R[2][1] * R[3][2] - R[2][2] * R[3][1])

\* The cofactor of R at (i, j), i, j in 1..3.
Cofactor(R, i, j) ==
    LET r1 == (i % 3) + 1
        r2 == ((i + 1) % 3) + 1
        c1 == (j % 3) + 1
        c2 == ((j + 1) % 3) + 1
    IN  R[r1][c1] * R[r2][c2] - R[r1][c2] * R[r2][c1]

\* The inverse of an affine whose 3x3 block has determinant 1 or -1 (the
\* matrices of the model): adj(R) * det(R), and -R^-1 t.
AffineInverse(M) ==
    LET d == Det3(M)
        Ri == [i \in 1..3 |-> [j \in 1..3 |-> d * Cofactor(M, j, i)]]
        ti == [i \in 1..3 |->
                 -(Ri[i][1] * M[1][4] + Ri[i][2] * M[2][4] + Ri[i][3] * M[3][4])]
    IN  [i \in 1..4 |->
            IF i = 4 THEN <<0, 0, 0, 1>>
            ELSE <<Ri[i][1], Ri[i][2], Ri[i][3], ti[i]>>]

\* Affine.map(x, inverse): every point through the matrix, order kept.
AffineMap(M, pts, inverse) ==
    LET T == IF inverse THEN AffineInverse(M) ELSE M
    IN  [n \in 1..Len(pts) |->
            [i \in 1..3 |->
                T[i][1] * pts[n][1] + T[i][2] * pts[n][2] + T[i][3] * pts[n][3]
                + T[i][4]]]

\* A bug: the operands multiplied in the opposite order.
ComposeSwapped(A, B) == MatMul(A, B)

\* A + B: the Affine whose map applies A, then B.
Compose(A, B) == MatMul(B, A)

\* x of test_concatenation
TestPoints == << <<0, 0, 0>>, <<1, 1, 1>>, <<-1, -1, -1>> >>

AffineOf(R, t) ==
    [i \in 1..4 |->
        IF i = 4 THEN <<0, 0, 0, 1>>
        ELSE <<R[i][1], R[i][2], R[i][3], t[i]>>]

UnitBlocks ==
    { << <<1, 0, 0>>, <<0, 1, 0>>, <<0, 0, 1>> >>,      \* identity
      << <<0, -1, 0>>, <<1, 0, 0>>, <<0, 0, 1>> >>,     \* quarter turn about z
      << <<0, 0, 1>>, <<1, 0, 0>>, <<0, 1, 0>> >>,      \* axes permuted
      << <<-1, 0, 0>>, <<0, 1, 0>>, <<0, 0, 1>> >>,     \* x flipped
      << <<1, 1, 0>>, <<0, 1, 0>>, <<0, 0, 1>> >> }     \* shear

AffinePalette ==
    {AffineOf(R, t) : R \in UnitBlocks, t \in {<<0, 0, 0>>, <<1, -2, 3>>}}

PointLists == {TestPoints, << <<2, 0, -1>>, <<0, 3, 5>> >>}

CmpInit ==
    /\ cmpPc = "init"
    /\ cmpA \in AffinePalette
    /\ cmpB \in AffinePalette
    /\ cmpPts \in PointLists
    /\ cmpInv \in BOOLEAN
    /\ cmpAB = Identity4
    /\ cmpOut = <<>>
    /\ cmpSeq = <<>>
    /\ RasIdle /\ TxtIdle /\ FldIdle /\ OblIdle

\* A + B
Add ==
    /\ cmpPc = "init"
    /\ cmpPc' = "composed"
    /\ cmpAB' = Compose(cmpA, cmpB)
    /\ UNCHANGED <<cmpA, cmpB, cmpPts, cmpInv, cmpOut, cmpSeq>>
    /\ CmpFrame

\* (A + B)(x, inverse=...), and B(A(x)) for comparison.
MapPoints ==
    /\ cmpPc = "composed"
    /\ cmpPc' = "mapped"
    /\ cmpOut' = AffineMap(cmpAB, cmpPts, cmpInv)
    /\ cmpSeq' = AffineMap(cmpB, AffineMap(cmpA, cmpPts, FALSE), FALSE)
    /\ UNCHANGED <<cmpA, cmpB, cmpPts, cmpInv, cmpAB>>
    /\ CmpFrame

CmpNext ==
    \/ Add
    \/ MapPoints

SpecCompose == CmpInit /\ [][CmpNext]_vars

(***************************************************************************)
(* C7.  Composition law.                                                   *)
(***************************************************************************)
\* C7: (A + B) maps X to B.map(A.map(X)), operands applied left to right;
\* composing with the identity Affine() gives the other operand's map, so
\* that identity + identity leaves every point unchanged, with
\* inverse=False and with inverse=True.
C7_CompositionLaw ==
    cmpPc = "mapped" =>
        /\ ~cmpInv => cmpOut = cmpSeq
        /\ cmpB = Identity4 => cmpOut = AffineMap(cmpA, cmpPts, cmpInv)
        /\ cmpA = Identity4 => cmpOut = AffineMap(cmpB, cmpPts, cmpInv)
        /\ (cmpA = Identity4 /\ cmpB = Identity4) => cmpOut = cmpPts

\* Two operands that do not commute were composed and mapped the points of
\* test_concatenation.
C7_Witness ==
    /\ cmpPc = "mapped"
    /\ ~cmpInv
    /\ cmpPts = TestPoints
    /\ MatMul(cmpA, cmpB) # MatMul(cmpB, cmpA)
    /\ cmpOut = cmpSeq
    /\ cmpOut # cmpPts

(***************************************************************************)
(* _is_oblique and _afni_warpdrive.  nibabel's voxel_sizes(affine) is the  *)
(* Euclidean norm of every column of affine[:3, :3] and obliquity(affine)  *)
(* is arccos(abs(affine[:3, :3] / voxel_sizes).max(axis=1)): one angle per *)
(* row.  Norms are carried as their squares, and an angle is above the     *)
(* threshold iff its squared cosine is below that of the threshold.        *)
(***************************************************************************)
Abs(x) == IF x < 0 THEN -x ELSE x
Sgn(x) == IF x < 0 THEN -1 ELSE IF x > 0 THEN 1 ELSE 0

\* 1 / sin^2(OBLIQUITY_THRESHOLD_DEG), OBLIQUITY_THRESHOLD_DEG = 0.01
\* degree: cos^2 of the threshold is 1 - 1/ThresholdInvSinSq.
ThresholdInvSinSq == 32828064

\* voxel_sizes(affine)[j], squared.
VoxelSizeSq(M, j) == M[1][j] * M[1][j] + M[2][j] * M[2][j] + M[3][j] * M[3][j]

\* |M[i][j]| / voxel_sizes[j] is below the cosine of the threshold.
CosineBelow(M, i, j) ==
    M[i][j] * M[i][j] * ThresholdInvSinSq < VoxelSizeSq(M, j) * (ThresholdInvSinSq - 1)

\* obliquity(affine)[i] * 180 / pi > thres: the best cosine of row i, the
\* largest of the row, is below the cosine of the threshold.
AngleAbove(M, i) == \A j \in 1..3 : CosineBelow(M, i, j)

\* (obliquity(affine).min() * 180 / pi) > thres: the smallest of the three
\* angles is above the threshold, that is, all three are.
IsOblique(M) == \A i \in 1..3 : AngleAbove(M, i)

\* np.abs(oblique[:3, :3]).max(0)[j]
ColMax(M, j) ==
    LET a == Abs(M[1][j])
        b == Abs(M[2][j])
        c == Abs(M[3][j])
        ab == IF a > b THEN a ELSE b
    IN  IF ab > c THEN ab ELSE c

\* plumb_r = oblique[:3, :3] / np.abs(oblique[:3, :3]).max(0)
\* plumb_r[np.abs(plumb_r) < 1.0] = 0
\* plumb_r *= voxel_sizes(oblique)
\* Every entry of plumb_r is kept as its sign and its square: an entry as
\* large as the largest of its column becomes +-voxel_sizes[j], every
\* other entry 0.  The translation of plumb and R = plumb @ inv(oblique)
\* are computed from this block and the arguments.
PlumbBlock(M) ==
    LET keep(i, j) == Abs(M[i][j]) = ColMax(M, j)
    IN  [sign |-> [i \in 1..3 |-> [j \in 1..3 |->
                      IF keep(i, j) THEN Sgn(M[i][j]) ELSE 0]],
         sq |-> [i \in 1..3 |-> [j \in 1..3 |->
                      IF keep(i, j) THEN VoxelSizeSq(M, j) ELSE 0]]]

\* The 3x3 blocks of the affines of the model, all invertible.
ObliqueBlocks ==
    { << <<1, 0, 0>>, <<0, 1, 0>>, <<0, 0, 1>> >>,      \* identity
      << <<2, 0, 0>>, <<0, 3, 0>>, <<0, 0, 4>> >>,      \* plumb, anisotropic
      << <<-1, 0, 0>>, <<0, -1, 0>>, <<0, 0, 1>> >>,    \* plumb, LPS
      << <<0, 2, 0>>, <<2, 0, 0>>, <<0, 0, 2>> >>,      \* plumb, axes swapped
      << <<3, -4, 0>>, <<4, 3, 0>>, <<0, 0, 5>> >>,     \* rotated about z
      << <<5, 0, 0>>, <<0, 4, -3>>, <<0, 3, 4>> >>,     \* rotated about x
      << <<6, -2, 3>>, <<3, 6, -2>>, <<-2, 3, 6>> >>,   \* rotated about all axes
      << <<2, 1, 0>>, <<0, 2, 0>>, <<0, 0, 2>> >>,      \* sheared
      << <<1, -1, 0>>, <<1, 1, 0>>, <<0, 0, 1>> >> }    \* 45 degrees about z

ObliqueShifts == {<<0, 0, 0>>, <<4, 2, -1>>}

GridShapes == {<<1, 1, 1>>, <<2, 2, 2>>, <<4, 3, 2>>, <<3, 3, 1>>}

OblInit ==
    /\ oblPc = "init"
    /\ \E R \in ObliqueBlocks, t \in ObliqueShifts : oblAffine = AffineOf(R, t)
    /\ oblShape \in GridShapes
    /\ oblFlag = FALSE
    /\ oblPlumb = [sign |-> <<>>, sq |-> <<>>]
    /\ RasIdle /\ TxtIdle /\ FldIdle /\ CmpIdle

\* _is_oblique(affine)
TestOblique ==
    /\ oblPc = "init"
    /\ oblPc' = "tested"
    /\ oblFlag' = IsOblique(oblAffine)
    /\ UNCHANGED <<oblAffine, oblShape, oblPlumb>>
    /\ OblFrame

\* _afni_warpdrive(oblique, shape, ...)
Warpdrive ==
    /\ oblPc = "tested"
    /\ oblPc' = "warped"
    /\ oblPlumb' = PlumbBlock(oblAffine)
    /\ UNCHANGED <<oblAffine, oblShape, oblFlag>>
    /\ OblFrame

OblNext ==
    \/ TestOblique
    \/ Warpdrive

SpecObliq == OblInit /\ [][OblNext]_vars

(***************************************************************************)
(* C8.  _is_oblique and the plumb/oblique definition.                      *)
(***************************************************************************)
\* Column j (a grid axis) is within the threshold of a cardinal axis: its
\* largest component has a cosine not below that of the threshold.
C8_AxisAligned(M, j) == \E i \in 1..3 : ~CosineBelow(M, i, j)

\* C8 as claimed: _is_oblique returns False exactly when every grid axis
\* is within the threshold of a cardinal axis, and True whenever at least
\* one grid axis deviates by more than the threshold.
C8_ObliqueIffSomeAxisDeviates ==
    oblPc # "init" =>
        (oblFlag <=> ~(\A j \in 1..3 : C8_AxisAligned(oblAffine, j)))

(***************************************************************************)
(* C9.  The plumb affine of _afni_warpdrive.                               *)
(***************************************************************************)
\* C9 as claimed: for every invertible oblique affine, each column of the
\* plumb 3x3 block has exactly one non-zero entry, at the row of the
\* column's dominant component, of magnitude the voxel size of the column.
C9_OneEntryPerColumn ==
    (oblPc = "warped" /\ Det3(oblAffine) # 0) =>
        \A j \in 1..3 :
            LET nz == {i \in 1..3 : oblPlumb.sign[i][j] # 0}
            IN  /\ Cardinality(nz) = 1
                /\ \A i \in nz :
                      /\ Abs(oblAffine[i][j]) = ColMax(oblAffine, j)
                      /\ oblPlumb.sign[i][j] = Sgn(oblAffine[i][j])
                      /\ oblPlumb.sq[i][j] = VoxelSizeSq(oblAffine, j)

=============================================================================
